---- MODULE Spec2Model ----
(***************************************************************************)
(* Sky Events notifier (src/sky_events.py): the calendar classifier        *)
(* extract_meteors_eclipses, the satellite-pass adapter fetch_iss_passes   *)
(* and the pipeline of main.                                               *)
(*                                                                         *)
(* Time is counted in whole days since the Unix epoch.  A point in time is *)
(* an aware datetime [wall, off]: the wall-clock reading and the UTC       *)
(* offset it is expressed in; the instant it denotes is wall - off.        *)
(* Text is a sequence of strings, read as their concatenation; text that   *)
(* the program lower-cases, trims or searches is split into characters.    *)
(***************************************************************************)
EXTENDS Integers, Sequences, FiniteSets, TLC

VARIABLES
    pc,          \* position of the running entry point
    clock,       \* the wall clock of the machine, as a UTC instant
    env,         \* os.environ: N2YO_API_KEY
    args,        \* parsed command line: lat, lon, alt, days, notify
    years,       \* main: sorted(years), the years the for loop visits
    attempts,    \* main: years the loop has visited (fetch_astronomy_ics called)
    log,         \* main: years reported by "[Error fetching ...]"
    all_events,  \* main: all_events
    printed,     \* main: astronomy events written to stdout, in order
    iss_events,  \* main: iss_events
    upcoming,    \* main: upcoming, after its sort
    notified,    \* the events handed to notify(), in call order
    shown_now,   \* main: the "Now" echoed with the settings (line 146)
    cal,         \* extract_meteors_eclipses: the events of cal, in iteration order
    now0,        \* extract_meteors_eclipses: the clock reading of line 62
    kept,        \* extract_meteors_eclipses: out when the loop ends (line 84)
    extracted,   \* extract_meteors_eclipses: the returned list
    resp,        \* fetch_iss_passes: what requests.get / r.json() produced
    requests,    \* the URLs fetch_iss_passes asked requests.get for
    passes       \* fetch_iss_passes: how the call ended (raised, or returned what)

vars == <<pc, clock, env, args, years, attempts, log, all_events, printed,
          iss_events, upcoming, notified, shown_now, cal, now0, kept, extracted,
          resp, requests, passes>>

(***************************************************************************)
(* Bounds of the model.                                                    *)
(***************************************************************************)
MaxCal == 2       \* events in one yearly calendar
MaxPasses == 2    \* records in the "passes" array of one response
MaxTick == 1      \* days the clock may advance during one run
MaxDays == 1      \* largest --days

(***************************************************************************)
(* Program constants.                                                      *)
(***************************************************************************)
ISS_NORAD == 25544
TimeoutSecs == 30
DefaultMinElev == 10
NotifyCount == 2
YearLen == 365    \* days of a (common) year: datetime.year
DefaultOff == -1  \* UTC offset of DEFAULT_TZ: behind UTC

N2YO_BASE == "https://api.n2yo.com/rest/v1/satellite/visualpasses"

KEYWORDS ==
    << <<"m","e","t","e","o","r"," ","s","h","o","w","e","r">>,
       <<"e","c","l","i","p","s","e">> >>

(***************************************************************************)
(* str.lower, str.strip and the substring test `k in s`.                   *)
(***************************************************************************)
UpperCase ==
    <<"A","B","C","D","E","F","G","H","I","J","K","L","M","N","O","P","Q","R",
      "S","T","U","V","W","X","Y","Z">>
LowerCase ==
    <<"a","b","c","d","e","f","g","h","i","j","k","l","m","n","o","p","q","r",
      "s","t","u","v","w","x","y","z">>
Whitespace == {" ", "\t", "\n"}

ToLower == [c \in {UpperCase[i] : i \in 1..Len(UpperCase)} |->
               LowerCase[CHOOSE i \in 1..Len(UpperCase) : UpperCase[i] = c]]
LowerChar(c) == IF c \in DOMAIN ToLower THEN ToLower[c] ELSE c

Lower(s) == [i \in 1..Len(s) |-> LowerChar(s[i])]

Strip(s) ==
    LET inked == {i \in 1..Len(s) : s[i] \notin Whitespace}
    IN  IF inked = {} THEN <<>>
        ELSE LET lo == CHOOSE i \in inked : \A j \in inked : i <= j
                 hi == CHOOSE i \in inked : \A j \in inked : j <= i
             IN  SubSeq(s, lo, hi)

Contains(s, k) ==
    \E i \in 0..(Len(s) - Len(k)) : SubSeq(s, i + 1, i + Len(k)) = k

\* str(int), for the f-string of line 118
Digit == <<"0","1","2","3","4","5","6","7","8","9">>
RECURSIVE NatStr(_)
NatStr(n) == IF n < 10 THEN <<Digit[n + 1]>>
             ELSE NatStr(n \div 10) \o <<Digit[(n % 10) + 1]>>
IntStr(n) == IF n < 0 THEN <<"-">> \o NatStr(-n) ELSE NatStr(n)

(***************************************************************************)
(* Aware datetimes.                                                        *)
(***************************************************************************)
Instant(d) == d.wall - d.off
AsTimezone(d) == [wall |-> Instant(d) + DefaultOff, off |-> DefaultOff]
NowLocal(t) == [wall |-> t + DefaultOff, off |-> DefaultOff]
PlusDays(d, n) == [wall |-> d.wall + n, off |-> d.off]
Before(a, b) == Instant(a) < Instant(b)
Year(d) == d.wall \div YearLen
FromTimestampUTC(x) == [wall |-> x, off |-> 0]

(***************************************************************************)
(* list.sort(key=lambda e: e["start"]): ascending and stable.              *)
(***************************************************************************)
\* a sort that puts an event before the events of equal start
RECURSIVE InsertBefore(_, _)
InsertBefore(s, e) ==
    IF s = <<>> THEN <<e>>
    ELSE IF Before(s[Len(s)].start, e.start) THEN Append(s, e)
         ELSE Append(InsertBefore(SubSeq(s, 1, Len(s) - 1), e), s[Len(s)])
RECURSIVE InsertAfter(_, _)
InsertAfter(s, e) ==
    IF s = <<>> THEN <<e>>
    ELSE IF Before(e.start, s[Len(s)].start)
         THEN Append(InsertAfter(SubSeq(s, 1, Len(s) - 1), e), s[Len(s)])
         ELSE Append(s, e)
RECURSIVE UnstableFrom(_, _)
UnstableFrom(done, rest) ==
    IF rest = <<>> THEN done
    ELSE UnstableFrom(InsertBefore(done, Head(rest)), Tail(rest))
SortUnstable(s) == UnstableFrom(<<>>, s)
RECURSIVE SortFrom(_, _)
SortFrom(done, rest) ==
    IF rest = <<>> THEN done
    ELSE SortFrom(InsertAfter(done, Head(rest)), Tail(rest))
SortByStart(s) == SortFrom(<<>>, s)

(***************************************************************************)
(* The clock.  A call that reads the clock n times sees n readings, none   *)
(* earlier than the one before: the clock advances while the program runs. *)
(***************************************************************************)
Start == YearLen - 1    \* the clock when the program starts
MaxClock == Start + MaxTick
ClockReadings(n) ==
    {r \in [1..n -> clock..MaxClock] : \A i \in 1..(n - 1) : r[i] <= r[i + 1]}
LastOf(r) == r[Len(r)]

(***************************************************************************)
(* extract_meteors_eclipses(cal, horizon_days).  A calendar event is       *)
(* [name, begin]; name and begin are optional ([some |-> FALSE] is None).  *)
(* nows[1] is the clock reading of line 62, nows[i + 1] the clock when the *)
(* i-th event is examined (line 75).                                       *)
(***************************************************************************)
NameOrEmpty(ev) == IF ev.name.some THEN ev.name.s ELSE <<>>

\* the names the calendars of this model carry
None == [some |-> FALSE, s |-> <<>>]
Some(x) == [some |-> TRUE, s |-> x]

NameMeteor == Some(<<" ","M","e","t","e","o","r"," ","S","h","o","w","e","r">>)
NameEclipse == Some(<<"E","C","L","I","P","S","E"," ">>)
NameBoth ==
    Some(<<"E","c","l","i","p","s","e"," ","&"," ","m","e","t","e","o","r"," ",
           "s","h","o","w","e","r">>)
NameOther == Some(<<"F","u","l","l"," ","M","o","o","n">>)
Names == {NameMeteor, NameEclipse, NameBoth, NameOther, None}

HasKeyword(lname) == \E k \in 1..Len(KEYWORDS) : Contains(lname, KEYWORDS[k])

\* the two tests of line 77 in the other order
EventTypeEclipseFirst(lname) ==
    IF Contains(lname, KEYWORDS[2]) THEN "Eclipse"
    ELSE IF Contains(lname, KEYWORDS[1]) THEN "Meteor Shower" ELSE "Event"
EventType(lname) ==
    IF Contains(lname, KEYWORDS[1]) THEN "Meteor Shower"
    ELSE IF Contains(lname, KEYWORDS[2]) THEN "Eclipse" ELSE "Event"

\* lines 65-67 and 77 depend on the name alone: what they compute for it
Classify(ev) ==
    LET name  == Strip(NameOrEmpty(ev))
        lname == Lower(name)
    IN  [name |-> name, keyword |-> HasKeyword(lname), type |-> EventType(lname)]

\* Classify, tabulated over Names
Classified == [n \in Names |-> Classify([name |-> n])]

AstroEvent(c, start) ==
    [type |-> c.type, name |-> c.name, start |-> start, source |-> "In-The-Sky iCal"]

RECURSIVE ExtractLoop(_, _, _, _, _)
ExtractLoop(events, i, cutoff, nows, out) ==
    IF i > Len(events) THEN out
    ELSE LET ev    == events[i]
             c     == Classified[ev.name]
             start == AsTimezone(ev.begin.t)
             skip  == \/ ~c.keyword
                      \/ ~ev.begin.some
                      \/ Before(start, NowLocal(nows[i + 1]))
                      \/ Before(cutoff, start)
         IN  ExtractLoop(events, i + 1, cutoff, nows,
                         IF skip THEN out ELSE Append(out, AstroEvent(c, start)))

ExtractKept(events, horizon_days, nows) ==
    ExtractLoop(events, 1, PlusDays(NowLocal(nows[1]), horizon_days), nows, <<>>)

(***************************************************************************)
(* fetch_iss_passes(lat, lon, alt_m, days, min_elev).                      *)
(* A response is [outcome, data]: outcome "neterr" (requests.get raised),  *)
(* "http" (raise_for_status raised), "badjson" (r.json() raised) or "ok",  *)
(* and data the decoded body.  A decoded value carries its JSON kind; a    *)
(* scalar is [kind, n] with kind "absent" for a key the object lacks and   *)
(* "numstr" for a string that spells the integer n.                        *)
(***************************************************************************)
Absent == [kind |-> "absent", n |-> 0]
Null == [kind |-> "null", n |-> 0]
Num(x) == [kind |-> "num", n |-> x]
NumStr(x) == [kind |-> "numstr", n |-> x]
Str == [kind |-> "str", n |-> 0]

\* dict.get(key, default) on a scalar field: the value, or default if absent
GetOr(v, default) == IF v.kind = "absent" THEN Num(default) ELSE v

\* datetime.fromtimestamp(x, tz=utc) raises unless x is a number
TimestampOk(v) == GetOr(v, 0).kind = "num"
\* int(x) accepts a number or a string that spells one
IntOk(v) == GetOr(v, 0).kind \in {"num", "numstr"}

PassOk(p) ==
    /\ p.kind = "obj"
    /\ TimestampOk(p.startUTC)
    /\ TimestampOk(p.endUTC)
    /\ IntOk(p.maxEl)

\* line 118; "deg" stands for the degree sign
PassName(max_el) == <<"ISS visible pass (max elev ~">> \o IntStr(max_el) \o <<"deg)">>

PassEvent(p) ==
    [type   |-> "ISS Pass",
     name   |-> PassName(GetOr(p.maxEl, 0).n),
     start  |-> AsTimezone(FromTimestampUTC(GetOr(p.startUTC, 0).n)),
     end    |-> AsTimezone(FromTimestampUTC(GetOr(p.endUTC, 0).n)),
     mag    |-> IF p.mag.kind = "absent" THEN Null ELSE p.mag,
     source |-> "N2YO"]

\* data.get("passes", []) or []
PassesOf(data) ==
    IF data.passes.kind \in {"absent", "null"} THEN <<>>
    ELSE IF data.passes.kind = "num" /\ data.passes.n = 0 THEN <<>>
    ELSE data.passes.items

\* lines 106-126 raise: data is no object, passes cannot be iterated, or a
\* record cannot be converted
BodyRaises(data) ==
    \/ data.kind # "obj"
    \/ data.passes.kind = "num" /\ data.passes.n # 0
    \/ \E i \in 1..Len(PassesOf(data)) : ~PassOk(PassesOf(data)[i])

Url(api_key, a, min_elev) ==
    [base |-> N2YO_BASE, sat |-> ISS_NORAD, lat |-> a.lat, lon |-> a.lon,
     alt |-> a.alt, days |-> a.days, min_elev |-> min_elev, apiKey |-> api_key,
     timeout |-> TimeoutSecs]

KeySet(e) == e.N2YO_API_KEY.some /\ e.N2YO_API_KEY.s # ""

Returned(list, urls) == [called |-> TRUE, raised |-> FALSE, out |-> list, urls |-> urls]
Raised(urls) == [called |-> TRUE, raised |-> TRUE, out |-> <<>>, urls |-> urls]

\* fetch_iss_passes without lines 95-96
FetchIssPassesNoKeyCheck(e, a, min_elev, r) ==
    LET urls == <<Url(e.N2YO_API_KEY.s, a, min_elev)>>
    IN  IF r.outcome # "ok" THEN Returned(<<>>, urls)
        ELSE IF BodyRaises(r.data) THEN Raised(urls)
        ELSE Returned(SortByStart([i \in 1..Len(PassesOf(r.data)) |->
                                      PassEvent(PassesOf(r.data)[i])]), urls)

FetchIssPasses(e, a, min_elev, r) ==
    IF ~KeySet(e) THEN Returned(<<>>, <<>>)
    ELSE LET urls == <<Url(e.N2YO_API_KEY.s, a, min_elev)>>
         IN  IF r.outcome # "ok" THEN Returned(<<>>, urls)
             ELSE IF BodyRaises(r.data) THEN Raised(urls)
             ELSE Returned(SortByStart([i \in 1..Len(PassesOf(r.data)) |->
                                           PassEvent(PassesOf(r.data)[i])]), urls)

(***************************************************************************)
(* Inputs.                                                                 *)
(***************************************************************************)
NoBegin == [some |-> FALSE, t |-> [wall |-> 0, off |-> 0]]
BeginAt(instant, off) == [some |-> TRUE, t |-> [wall |-> instant + off, off |-> off]]

SeqsUpTo(S, n) == UNION {[1..k -> S] : k \in 0..n}

\* calendars given to extract_meteors_eclipses when it is called on its own
ExtractBegins ==
    {NoBegin, BeginAt(Start + 1, 1)} \cup {BeginAt(t, 0) : t \in Start..(Start + 2)}
ExtractCalendars ==
    SeqsUpTo([name : Names, begin : ExtractBegins], MaxCal)

\* yearly feeds served to main
MainCalendars ==
    SeqsUpTo({[name |-> NameMeteor, begin |-> BeginAt(Start + 1, 0)],
              [name |-> NameMeteor, begin |-> BeginAt(Start + 2, 0)],
              [name |-> NameEclipse, begin |-> BeginAt(Start + 2, 0)]}, MaxCal)

\* responses of the pass-prediction service
Pass(start, end, max_el, mag) ==
    [kind |-> "obj", startUTC |-> start, endUTC |-> end, maxEl |-> max_el, mag |-> mag]
NotAnObject == [kind |-> "num", startUTC |-> Absent, endUTC |-> Absent,
                maxEl |-> Absent, mag |-> Absent]
GoodPasses ==
    {Pass(Num(t), Num(t), Num(42), m) : t \in (Start + 1)..(Start + 2), m \in {Absent, Num(-2)}}
OddPasses ==
    {Pass(s, Num(Start + 1), Num(42), Absent) : s \in {Absent, Str, Null}}
        \cup {Pass(Num(Start + 1), e, Num(42), Absent) : e \in {Absent, Str}}
        \cup {Pass(Num(Start + 1), Num(Start + 1), x, Absent) :
                 x \in {Absent, NumStr(42), Str, Null}}
        \cup {NotAnObject}

NoItems == [kind |-> "absent", n |-> 0, items |-> <<>>]
Body(kind, p) == [kind |-> kind, passes |-> p]
Failed(outcome) == [outcome |-> outcome, data |-> Body("null", NoItems)]
Ok(data) == [outcome |-> "ok", data |-> data]
NoResponse == Failed("none")

FailedResponses == {Failed(o) : o \in {"neterr", "http", "badjson"}}
OddBodies ==
    {Body(k, NoItems) : k \in {"null", "list", "num", "str", "obj"}}
        \cup {Body("obj", [kind |-> k, n |-> n, items |-> <<>>]) :
                k \in {"null", "num"}, n \in 0..1}
ListBodies(records) ==
    {Body("obj", [kind |-> "list", n |-> 0, items |-> l]) :
        l \in SeqsUpTo(records, MaxPasses)}

PassResponses ==
    FailedResponses \cup {Ok(b) : b \in OddBodies \cup ListBodies(GoodPasses \cup OddPasses)}
MainResponses ==
    {Failed("http"), Ok(Body("list", NoItems))}
        \cup {Ok(b) : b \in ListBodies({Pass(Num(Start + 2), Num(Start + 2), Num(42), Absent),
                                        Pass(Num(Start + 2), Num(Start + 2), Num(7), Absent),
                                        Pass(Absent, Num(Start + 1), Num(42), Absent)})}

Days == 0..MaxDays
Unset == [some |-> FALSE, s |-> ""]
Envs == {[N2YO_API_KEY |-> k] : k \in {Unset, Some(""), Some("k")}}
Args(lat, alt, days, notify) ==
    [lat |-> lat, lon |-> -74, alt |-> alt, days |-> days, notify |-> notify]

(***************************************************************************)
(* State before any entry point has run.                                   *)
(***************************************************************************)
NotCalled == [called |-> FALSE, raised |-> FALSE, out |-> <<>>, urls |-> <<>>]

Idle ==
    /\ years = <<>>
    /\ attempts = <<>>
    /\ log = <<>>
    /\ all_events = <<>>
    /\ printed = <<>>
    /\ iss_events = <<>>
    /\ upcoming = <<>>
    /\ notified = <<>>
    /\ shown_now = 0
    /\ now0 = 0
    /\ kept = <<>>
    /\ extracted = <<>>
    /\ resp = NoResponse
    /\ requests = <<>>
    /\ passes = NotCalled

(***************************************************************************)
(* extract_meteors_eclipses called on a calendar (lines 60-86).            *)
(***************************************************************************)
InitExtract ==
    /\ pc = "extract"
    /\ clock = Start
    /\ env \in {[N2YO_API_KEY |-> Unset]}
    /\ args \in {Args(40, 50, d, FALSE) : d \in Days}
    /\ cal \in ExtractCalendars
    /\ Idle

CallExtract ==
    /\ pc = "extract"
    /\ \E nows \in ClockReadings(Len(cal) + 1) :
          /\ now0' = nows[1]
          /\ kept' = ExtractKept(cal, args.days, nows)
          /\ extracted' = SortByStart(kept')
          /\ clock' = LastOf(nows)
    /\ pc' = "extract_done"
    /\ UNCHANGED <<env, args, years, attempts, log, all_events, printed, iss_events,
                   upcoming, notified, shown_now, cal, resp, requests, passes>>

NextExtract == CallExtract
SpecExtract == InitExtract /\ [][NextExtract]_vars

(***************************************************************************)
(* fetch_iss_passes called on its own (lines 88-126).                      *)
(***************************************************************************)
MinElevs == {DefaultMinElev, 30}

InitPasses ==
    /\ pc = "passes"
    /\ clock = Start
    /\ env \in Envs
    /\ args \in {Args(lat, alt, d, FALSE) : lat \in {40, -33}, alt \in {0, 50}, d \in Days}
    /\ cal = <<>>
    /\ Idle

CallFetchIssPasses ==
    /\ pc = "passes"
    /\ \E r \in PassResponses, min_elev \in MinElevs :
          /\ passes' = FetchIssPasses(env, args, min_elev, r)
          /\ requests' = passes'.urls
          /\ resp' = IF requests' = <<>> THEN NoResponse ELSE r
    /\ pc' = "passes_done"
    /\ UNCHANGED <<clock, env, args, years, attempts, log, all_events, printed,
                   iss_events, upcoming, notified, shown_now, cal, now0, kept,
                   extracted>>

NextPasses == CallFetchIssPasses
SpecPasses == InitPasses /\ [][NextPasses]_vars

(***************************************************************************)
(* main (lines 128-188), from the return of parse_args on.                 *)
(***************************************************************************)
\* a slice that is one too long
TakeOneMore(s, n) == SubSeq(s, 1, IF Len(s) < n + 1 THEN Len(s) ELSE n + 1)
\* s[:n]
Take(s, n) == SubSeq(s, 1, IF Len(s) < n THEN Len(s) ELSE n)

\* sorted({a, b})
SortedYears(a, b) == IF a = b THEN <<a>> ELSE IF a < b THEN <<a, b>> ELSE <<b, a>>

Init ==
    /\ pc = "settings"
    /\ clock = Start
    /\ env \in {[N2YO_API_KEY |-> k] : k \in {Unset, Some("k")}}
    /\ args \in {Args(40, 50, MaxDays, n) : n \in BOOLEAN}
    /\ cal = <<>>
    /\ Idle

\* lines 139-150: echo the settings, choose the years to fetch
EchoSettings ==
    /\ pc = "settings"
    /\ \E nows \in ClockReadings(3) :
          /\ shown_now' = nows[1]
          /\ years' = SortedYears(Year(NowLocal(nows[2])),
                                  Year(PlusDays(NowLocal(nows[3]), args.days)))
          /\ clock' = LastOf(nows)
    /\ all_events' = <<>>
    /\ pc' = "astronomy"
    /\ UNCHANGED <<env, args, attempts, log, printed, iss_events, upcoming, notified,
                   cal, now0, kept, extracted, resp, requests, passes>>

\* the year the for loop takes next
NextYear == years[Len(attempts) + 1]

\* lines 151-156, fetch_astronomy_ics raises (lines 53-58): the year is logged
FetchYearFails ==
    /\ pc = "astronomy"
    /\ Len(attempts) < Len(years)
    /\ attempts' = Append(attempts, NextYear)
    /\ log' = Append(log, NextYear)
    /\ UNCHANGED <<pc, clock, env, args, years, all_events, printed, iss_events, upcoming,
                   notified, shown_now, cal, now0, kept, extracted, resp, requests,
                   passes>>

\* lines 153-154: the feed of the year is fetched and classified
FetchYear ==
    /\ pc = "astronomy"
    /\ Len(attempts) < Len(years)
    /\ attempts' = Append(attempts, NextYear)
    /\ \E c \in MainCalendars :
          \E nows \in ClockReadings(Len(c) + 1) :
             /\ cal' = c
             /\ now0' = nows[1]
             /\ kept' = ExtractKept(c, args.days, nows)
             /\ extracted' = SortByStart(kept')
             /\ clock' = LastOf(nows)
    /\ pc' = "extend"
    /\ UNCHANGED <<env, args, years, log, all_events, printed, iss_events, upcoming,
                   notified, shown_now, resp, requests, passes>>

\* line 154, the += of the returned list; cal and the list are dead afterwards
ExtendAllEvents ==
    /\ pc = "extend"
    /\ all_events' = all_events \o extracted
    /\ cal' = <<>>
    /\ now0' = 0
    /\ kept' = <<>>
    /\ extracted' = <<>>
    /\ pc' = "astronomy"
    /\ UNCHANGED <<clock, env, args, years, attempts, log, printed, iss_events,
                   upcoming, notified, shown_now, resp, requests, passes>>

\* lines 158-164: the astronomy events are printed
PrintAstronomy ==
    /\ pc = "astronomy"
    /\ Len(attempts) = Len(years)
    /\ printed' = all_events
    /\ pc' = "iss"
    /\ UNCHANGED <<clock, env, args, years, attempts, log, all_events, iss_events,
                   upcoming, notified, shown_now, cal, now0, kept, extracted, resp,
                   requests, passes>>

\* lines 166-176: the passes are fetched and printed; an exception of
\* fetch_iss_passes leaves main
IssPasses ==
    /\ pc = "iss"
    /\ \E r \in MainResponses :
          /\ passes' = FetchIssPasses(env, args, DefaultMinElev, r)
          /\ requests' = passes'.urls
          /\ resp' = IF requests' = <<>> THEN NoResponse ELSE r
    /\ iss_events' = passes'.out
    /\ pc' = IF passes'.raised THEN "raised" ELSE "notify"
    /\ UNCHANGED <<clock, env, args, years, attempts, log, all_events, printed,
                   upcoming, notified, shown_now, cal, now0, kept, extracted>>

\* lines 179-188
Notify ==
    /\ pc = "notify"
    /\ args.notify
    /\ upcoming' = SortByStart(all_events \o iss_events)
    /\ notified' = Take(upcoming', NotifyCount)
    /\ pc' = "done"
    /\ UNCHANGED <<clock, env, args, years, attempts, log, all_events, printed,
                   iss_events, shown_now, cal, now0, kept, extracted, resp, requests,
                   passes>>

\* line 179, --notify not given
NoNotify ==
    /\ pc = "notify"
    /\ ~args.notify
    /\ pc' = "done"
    /\ UNCHANGED <<clock, env, args, years, attempts, log, all_events, printed,
                   iss_events, upcoming, notified, shown_now, cal, now0, kept,
                   extracted, resp, requests, passes>>

Next ==
    \/ EchoSettings
    \/ FetchYearFails
    \/ FetchYear
    \/ ExtendAllEvents
    \/ PrintAstronomy
    \/ IssPasses
    \/ Notify
    \/ NoNotify

Spec == Init /\ [][Next]_vars

(***************************************************************************)
(* Vocabulary of the properties.                                           *)
(***************************************************************************)
Min2(n) == IF n < 2 THEN n ELSE 2
StartOf(e) == Instant(e.start)
Ascending(s) == \A i, j \in 1..Len(s) : i < j => StartOf(s[i]) <= StartOf(s[j])

\* the place of s[i] when s is put in ascending order of start, events of
\* equal start keeping their order
Rank(s, i) ==
    1 + Cardinality({j \in 1..Len(s) :
                        \/ StartOf(s[j]) < StartOf(s[i])
                        \/ StartOf(s[j]) = StartOf(s[i]) /\ j < i})
StableSortOf(in, out) ==
    /\ Len(out) = Len(in)
    /\ \A i \in 1..Len(in) : out[Rank(in, i)] = in[i]
    /\ Ascending(out)

Meteor(text) == Contains(Lower(text), <<"m","e","t","e","o","r"," ","s","h","o","w","e","r">>)
Eclipse(text) == Contains(Lower(text), <<"e","c","l","i","p","s","e">>)

\* the calendar event has a keyword in its name and a start
Candidate(ev) ==
    /\ ev.begin.some
    /\ Meteor(Strip(NameOrEmpty(ev))) \/ Eclipse(Strip(NameOrEmpty(ev)))
\* ... and its start lies in [now, now + days]
Qualifies(ev, now, days) ==
    /\ Candidate(ev)
    /\ now <= Instant(ev.begin.t)
    /\ Instant(ev.begin.t) <= now + days

RECURSIVE Qualifying(_, _, _)
Qualifying(events, now, days) ==
    IF events = <<>> THEN <<>>
    ELSE (IF Qualifies(Head(events), now, days)
          THEN <<<<Strip(NameOrEmpty(Head(events))), Instant(Head(events).begin.t)>>>>
          ELSE <<>>) \o Qualifying(Tail(events), now, days)

KeyMissing == ~env.N2YO_API_KEY.some \/ env.N2YO_API_KEY.s = ""
Merged == all_events \o iss_events

(***************************************************************************)
(* C1.  extract_meteors_eclipses retains a calendar event if and only if   *)
(* its trimmed, lower-cased name contains "meteor shower" or "eclipse" and *)
(* its start lies in [now, now + horizon_days], now being the instant of   *)
(* the call: the retained events are exactly the qualifying ones.          *)
(***************************************************************************)
C1_RetainedIffQualifies ==
    pc = "extract_done" =>
        [i \in 1..Len(kept) |-> <<kept[i].name, StartOf(kept[i])>>]
            = Qualifying(cal, now0, args.days)

(***************************************************************************)
(* C2.  With an API key set, fetch_iss_passes never raises, whatever the   *)
(* HTTP call produces; a failed call gives the empty list.                 *)
(***************************************************************************)
C2_FetchIssPassesNeverRaises ==
    pc = "passes_done" /\ ~KeyMissing =>
        /\ ~passes.raised
        /\ resp.outcome # "ok" => passes.out = <<>>

(***************************************************************************)
(* C3.  After argument parsing main runs to completion: no exception       *)
(* leaves it, every relevant year is visited even when an earlier one      *)
(* failed, a failed year is logged and adds no event, and the pass fetch   *)
(* follows.                                                                *)
(***************************************************************************)
C3_MainRunsToCompletion ==
    /\ pc # "raised"
    /\ pc \in {"iss", "notify", "done"} => attempts = years
    /\ pc \in {"notify", "done"} => passes.called
    /\ \A i \in 1..Len(log) : \E j \in 1..Len(attempts) : attempts[j] = log[i]
    /\ Len(log) = Len(years) => all_events = <<>>

(***************************************************************************)
(* C4.  With N2YO_API_KEY unset or empty fetch_iss_passes returns the      *)
(* empty list and asks the network for nothing.                            *)
(***************************************************************************)
C4_NoKeyNoCall ==
    pc = "passes_done" /\ KeyMissing =>
        /\ passes.called
        /\ ~passes.raised
        /\ passes.out = <<>>
        /\ requests = <<>>

C4_Witness ==
    /\ pc = "passes_done"
    /\ env.N2YO_API_KEY = Some("")
    /\ args.lat = -33
    /\ args.days = MaxDays
    /\ requests = <<>>
    /\ passes.called

(***************************************************************************)
(* C5.  With --notify, main notifies exactly the first min(2, n) events of *)
(* the stable ascending-by-start order of all_events + iss_events, in that *)
(* order, one call each; without --notify it notifies nothing.             *)
(***************************************************************************)
C5_NotifiesSoonestTwo ==
    /\ pc = "done" /\ args.notify =>
          /\ Len(notified) = Min2(Len(Merged))
          /\ \A i \in 1..Len(Merged) :
                Rank(Merged, i) <= 2 => notified[Rank(Merged, i)] = Merged[i]
    /\ pc # "done" \/ ~args.notify => notified = <<>>

\* five events are merged, the two soonest are notified, and the first of
\* them is not the first of the concatenation
C5_Witness ==
    /\ pc = "done"
    /\ args.notify
    /\ Len(Merged) = 5
    /\ Len(notified) = 2
    /\ notified[1] # Merged[1]

(***************************************************************************)
(* C6.  The lists produced by extract_meteors_eclipses, by                 *)
(* fetch_iss_passes and by the merge in main are in ascending order of     *)
(* start, and events of equal start keep the order of the input (calendar  *)
(* order, pass-array order, concatenation order).                          *)
(***************************************************************************)
C6_SortedAndStable ==
    /\ pc = "extend" => StableSortOf(kept, extracted)
    /\ pc \in {"notify", "done"} /\ resp.outcome = "ok" =>
          StableSortOf([i \in 1..Len(PassesOf(resp.data)) |->
                           PassEvent(PassesOf(resp.data)[i])], iss_events)
    /\ pc = "done" /\ args.notify => StableSortOf(Merged, upcoming)

\* the merge moved an event forward and kept two events of equal start, one
\* from each source, in concatenation order
C6_Witness ==
    /\ pc = "done"
    /\ args.notify
    /\ upcoming # Merged
    /\ \E i \in 1..(Len(upcoming) - 1) :
          /\ StartOf(upcoming[i]) = StartOf(upcoming[i + 1])
          /\ upcoming[i].source = "In-The-Sky iCal"
          /\ upcoming[i + 1].source = "N2YO"
    /\ \E i \in 1..(Len(iss_events) - 1) :
          /\ StartOf(iss_events[i]) = StartOf(iss_events[i + 1])
          /\ iss_events[i] # iss_events[i + 1]

(***************************************************************************)
(* C7.  Every event that reaches the merge, from either source, starts in  *)
(* the window: not before the "Now" the run began with and not after       *)
(* now + horizon_days; so no event already past is notified.               *)
(***************************************************************************)
C7_MergedEventsInWindow ==
    pc \in {"notify", "done"} =>
        /\ \A i \in 1..Len(Merged) :
              /\ shown_now <= StartOf(Merged[i])
              /\ StartOf(Merged[i]) <= clock + args.days
        /\ \A i \in 1..Len(notified) : shown_now <= StartOf(notified[i])

(***************************************************************************)
(* C8.  A retained event whose name contains both keywords is tagged       *)
(* "Meteor Shower", one that contains only "eclipse" is tagged "Eclipse",  *)
(* and no retained event carries the fallback tag "Event".                 *)
(***************************************************************************)
C8_TagPriority ==
    pc = "extract_done" =>
        \A i \in 1..Len(extracted) :
            LET e == extracted[i]
            IN  /\ Meteor(e.name) => e.type = "Meteor Shower"
                /\ Eclipse(e.name) /\ ~Meteor(e.name) => e.type = "Eclipse"
                /\ e.type \in {"Meteor Shower", "Eclipse"}

\* one call retained an event naming both keywords and one naming only
\* "eclipse"
C8_Witness ==
    /\ pc = "extract_done"
    /\ \E i \in 1..Len(extracted) :
          Meteor(extracted[i].name) /\ Eclipse(extracted[i].name)
    /\ \E i \in 1..Len(extracted) :
          ~Meteor(extracted[i].name) /\ extracted[i].type = "Eclipse"

(***************************************************************************)
(* C9.  Within one call every calendar event is judged against the same    *)
(* instant: candidates with the same start are all retained or all         *)
(* discarded.                                                              *)
(***************************************************************************)
C9_SameStartSameVerdict ==
    pc = "extract_done" =>
        \A i \in 1..Len(cal) :
            Candidate(cal[i]) =>
                LET t == Instant(cal[i].begin.t)
                    candidates == {j \in 1..Len(cal) :
                                      Candidate(cal[j]) /\ Instant(cal[j].begin.t) = t}
                    retained == {j \in 1..Len(kept) : StartOf(kept[j]) = t}
                IN  Cardinality(retained) \in {0, Cardinality(candidates)}

(***************************************************************************)
(* C10.  The astronomy events main prints are in ascending order of start  *)
(* across the yearly feeds.                                                *)
(***************************************************************************)
C10_PrintedAstronomyAscending == Ascending(printed)

====
